---- MODULE Spec2Model ----
(***************************************************************************)
(* A model of verde/model_selection.py: select, train_test_split,          *)
(* fit_score and cross_val_score, with the execution backend (client),     *)
(* the cross-validation generator and the estimator as the environment.    *)
(*                                                                         *)
(* Python values are tagged records:                                       *)
(*   None           [t |-> "None"]                                         *)
(*   tuple          [t |-> "tuple",   v |-> <<element, ...>>]              *)
(*   numpy array    [t |-> "ndarray", nd |-> 1 or 2, rows |-> <<row,...>>] *)
(*                  a 1-d array holds its elements in a single row         *)
(*   exception      [t |-> "exception", exc |-> name]                      *)
(* Index arrays are plain sequences of integers; positions are 0-based as  *)
(* in Python.                                                              *)
(*                                                                         *)
(* The estimator is an uninterpreted fit/score pair: fit keeps the train   *)
(* tuple, score gives a value that depends on the fitted state and on the  *)
(* test tuple, and either may fail. The cv generator is the one the caller *)
(* passes (the default KFold is one such generator): it yields up to       *)
(* MaxFolds folds and then stops.                                          *)
(***************************************************************************)
EXTENDS Integers, Sequences, FiniteSets

\* ------------------------------------------------------------------ bounds
\* longest 1-d input array
MaxN == 2
\* widest 2-d input array (2 rows, 1..MaxCols columns)
MaxCols == 2
\* most folds the cross-validation generator yields
MaxFolds == 2
\* longest index array handed to select on its own
MaxIdxLen == 2

\* ------------------------------------------------------------ Python values
None == [t |-> "None"]

Tuple(s) == [t |-> "tuple", v |-> s]

Array1(s) == [t |-> "ndarray", nd |-> 1, rows |-> <<s>>]

Array2(rs) == [t |-> "ndarray", nd |-> 2, rows |-> rs]

Exception(name) == [t |-> "exception", exc |-> name]

IsNone(x) == x.t = "None"

IsException(x) == x.t = "exception"

\* ndarray.ravel(): the elements in row-major (C) order
RECURSIVE Flatten(_)
Flatten(rows) ==
    IF rows = <<>> THEN <<>> ELSE Head(rows) \o Flatten(Tail(rows))

Ravel(a) == Flatten(a.rows)

\* ndarray.size
Size(a) == Len(Ravel(a))

\* one position of a flat array of n elements: negative positions count from
\* the end, anything outside [-n, n) is an IndexError
ValidPos(n, p) == -n <= p /\ p < n

ItemAt(flat, p) == IF p >= 0 THEN flat[p + 1] ELSE flat[Len(flat) + p + 1]

\* flat[index] with an integer index array: a new 1-d array, one element per
\* position of index, in the order of index
Take(flat, index) ==
    IF \A j \in 1..Len(index) : ValidPos(Len(flat), index[j])
    THEN Array1([j \in 1..Len(index) |-> ItemAt(flat, index[j])])
    ELSE Exception("IndexError")

\* a[index] without the ravel: positions along the first axis only
RavelIndex_NoRavel(a, index) == Take(Head(a.rows), index)

\* i.ravel()[index]
RavelIndex(a, index) == Take(Ravel(a), index)

\* any(i is None for i in arrays)
AnyNone(arrays) == \E i \in 1..Len(arrays.v) : IsNone(arrays.v[i])

\* tuple(f(i) for i in ...): the first exception raised by an element
\* propagates, otherwise the tuple of the results
TupleOf(s) ==
    IF \E i \in 1..Len(s) : IsException(s[i])
    THEN s[CHOOSE i \in 1..Len(s) :
               IsException(s[i]) /\ \A j \in 1..(i - 1) : ~IsException(s[j])]
    ELSE Tuple(s)

\* select with all(...) in place of any(...): a tuple that mixes None and
\* arrays is indexed, and None has no ravel
Select_AllNone(arrays, index) ==
    IF IsNone(arrays) \/ \A i \in 1..Len(arrays.v) : IsNone(arrays.v[i])
    THEN arrays
    ELSE TupleOf([i \in 1..Len(arrays.v) |->
                     IF IsNone(arrays.v[i]) THEN Exception("AttributeError")
                     ELSE RavelIndex(arrays.v[i], index)])

\* select(arrays, index)
Select(arrays, index) ==
    IF IsNone(arrays) \/ AnyNone(arrays)
    THEN arrays
    ELSE TupleOf([i \in 1..Len(arrays.v) |-> RavelIndex(arrays.v[i], index)])

\* only the coordinates are indexed, data and weights are passed whole
SelectAll_CoordinatesOnly(args, index) ==
    TupleOf([i \in 1..Len(args.v) |->
                IF i = 1 THEN Select(args.v[i], index) ELSE args.v[i]])

\* tuple(select(i, index) for i in args)
SelectAll(args, index) ==
    TupleOf([i \in 1..Len(args.v) |-> Select(args.v[i], index)])

\* ------------------------------------------------------- input normalizer
\* check_data: a bare value becomes a one-element tuple
CheckData(d) == IF d.t = "tuple" THEN d ELSE Tuple(<<d>>)

\* check_fit_input(coordinates, data, weights, unpack=False): the normalized
\* (coordinates, data, weights), or ValueError when the component counts of
\* data and weights disagree or the flattened lengths disagree
CheckFitInput(c, d, w) ==
    LET dt == CheckData(d)
        wt == CheckData(w)
        n  == Size(c.v[1])
    IN  IF \E i \in 1..Len(c.v) : Size(c.v[i]) # n
        THEN Exception("ValueError")
        ELSE IF \E i \in 1..Len(dt.v) : Size(dt.v[i]) # n
        THEN Exception("ValueError")
        ELSE IF \A i \in 1..Len(wt.v) : IsNone(wt.v[i])
        THEN Tuple(<<c, dt, wt>>)
        ELSE IF Len(wt.v) # Len(dt.v)
        THEN Exception("ValueError")
        ELSE IF \E i \in 1..Len(wt.v) : IsNone(wt.v[i]) \/ Size(wt.v[i]) # n
        THEN Exception("ValueError")
        ELSE Tuple(<<c, dt, wt>>)

\* ------------------------------------------------------------ input family
\* an array of the given shape whose element at flat position p is base + p
MkArray(shape, base) ==
    IF Len(shape) = 1
    THEN Array1([j \in 1..shape[1] |-> base + j - 1])
    ELSE Array2([i \in 1..shape[1] |->
                    [j \in 1..shape[2] |-> base + (i - 1) * shape[2] + j - 1]])

NumElems(shape) == IF Len(shape) = 1 THEN shape[1] ELSE shape[1] * shape[2]

Shapes == {<<n>> : n \in 1..MaxN} \cup {<<2, c>> : c \in 1..MaxCols}

\* a shape with one more element than shape: the length mismatch
Longer(shape) == <<NumElems(shape) + 1>>

DataForms == {"array", "tuple2"}

WeightForms == {"None", "array", "tuple2"}

\* data or weights in one of the forms a caller passes them; in a
\* two-component tuple the length mismatch, if any, is in the second one
Components(form, good, shape, base) ==
    LET s2 == IF good THEN shape ELSE Longer(shape)
    IN  CASE form = "None"   -> None
          [] form = "array"  -> MkArray(s2, base)
          [] form = "tuple2" -> Tuple(<<MkArray(shape, base),
                                        MkArray(s2, base + 10)>>)

InputsOf(shapes) ==
    { [coordinates |-> Tuple(<<MkArray(s, 0), MkArray(s, 10)>>),
       data        |-> Components(df, dg, s, 20),
       weights     |-> Components(wf, wg, s, 40)] :
      s \in shapes, df \in DataForms, dg \in BOOLEAN,
      wf \in WeightForms, wg \in BOOLEAN }

\* train_test_split is called on every shape, cross_val_score on the
\* largest 1-d and the largest 2-d one
Inputs == InputsOf(Shapes)

ScoreInputs == InputsOf({<<MaxN>>, <<2, MaxCols>>})

\* arguments of a direct call of select
SelShapes == Shapes \cup {<<0>>}

SelElems == {None} \cup {MkArray(s, 0) : s \in SelShapes}

Arities == 0..2

SelArrays ==
    {None} \cup UNION { {Tuple(s) : s \in [1..k -> SelElems]} : k \in Arities }

MaxElems == IF MaxN > 2 * MaxCols THEN MaxN ELSE 2 * MaxCols

IndexArrays ==
    UNION { [1..k -> (-2)..MaxElems] : k \in 0..MaxIdxLen }

\* ------------------------------------------------------------------- state
VARIABLES
    call,        \* the function called: select, train_test_split, cross_val_score
    pc,          \* where that call is: start, split, loop, submit, append,
                 \* done (returned) or raised
    err,         \* the exception the call ended with, None otherwise
    ret,         \* the value the call returned, None before it returns
    selArrays,   \* select: the arrays argument
    selIndex,    \* select: the index argument
    coordinates, \* the caller's coordinates argument
    data,        \* the caller's data argument
    weights,     \* the caller's weights argument
    client,      \* cross_val_score: the backend that runs the units
    args,        \* the normalized (coordinates, data, weights), None before
    splitCalls,  \* how often the split generator was asked for a split
    yielded,     \* the (train, test) index pairs the generator yielded so far
    scores,      \* cross_val_score: the list of scores
    submitRet,   \* what the current client.submit returned or raised
    units,       \* the fit_score units submitted so far; a handle is an index
    estimators,  \* the estimator objects: the caller's, then the units' copies
    resolved     \* the handles the caller resolved, with what each gave

vars == <<call, pc, err, ret, selArrays, selIndex, coordinates, data, weights,
          client, args, splitCalls, yielded, scores, submitRet, units,
          estimators, resolved>>

callVars == <<call, selArrays, selIndex, coordinates, data, weights, client>>

\* an estimator before any fit, and after a fit on train_data
Unfitted == [t |-> "unfitted"]

Fitted(train_data) == [t |-> "fitted", on |-> train_data]

\* what estimator.score gives: it depends on the fitted state and the test data
ScoreOf(estimator, test_data) ==
    [t |-> "score", model |-> estimator, test |-> test_data]

\* a handle of the deferred backend
Future(h) == [t |-> "Future", key |-> h]

\* the client argument: None, or a backend. DummyClient runs a unit inside
\* submit; the deferred ones return a handle, and run the unit on the
\* estimator object they were handed (SharedClient) or on a copy made at
\* submit (CopyClient)
Clients == {"None", "DummyClient", "SharedClient", "CopyClient"}

Rest0 ==
    /\ pc = "start" /\ err = None /\ ret = None /\ args = None
    /\ splitCalls = 0 /\ yielded = <<>> /\ scores = <<>> /\ submitRet = None
    /\ units = <<>> /\ estimators = <<Unfitted>> /\ resolved = {}

InitSelect ==
    /\ call = "select"
    /\ selArrays \in SelArrays /\ selIndex \in IndexArrays
    /\ coordinates = None /\ data = None /\ weights = None
    /\ client = "DummyClient"
    /\ Rest0

InitSplit ==
    /\ call = "train_test_split"
    /\ selArrays = None /\ selIndex = <<>>
    /\ \E in \in Inputs :
         coordinates = in.coordinates /\ data = in.data /\ weights = in.weights
    /\ client = "DummyClient"
    /\ Rest0

InitScore ==
    /\ call = "cross_val_score"
    /\ selArrays = None /\ selIndex = <<>>
    /\ \E in \in ScoreInputs :
         coordinates = in.coordinates /\ data = in.data /\ weights = in.weights
    /\ client \in Clients
    /\ Rest0

Init == InitSelect \/ InitSplit \/ InitScore

\* ------------------------------------------------------------------ select
\* a call select(selArrays, selIndex)
DoSelect ==
    /\ call = "select" /\ pc = "start"
    /\ LET r == Select(selArrays, selIndex)
       IN  IF IsException(r)
           THEN pc' = "raised" /\ err' = r /\ ret' = ret
           ELSE pc' = "done" /\ err' = err /\ ret' = r
    /\ UNCHANGED <<callVars, args, splitCalls, yielded, scores, submitRet,
                   units, estimators, resolved>>

\* -------------------------------------------------------- train_test_split
\* ndata = args[1][0].size
NData(a) == Size(a.v[2].v[1])

\* the permutations of 0..n-1
Perms(n) ==
    {p \in [1..n -> 0..(n - 1)] : \A i, j \in 1..n : p[i] = p[j] => i = j}

\* what ShuffleSplit(n_splits=1, **kwargs).split(np.arange(n)) yields for the
\* permutation p it draws: the first ntest of p as test, the next ntrain as
\* train; the options decide ntest and ntrain, whose sum may fall short of n
ShuffleSplit(p, ntest, ntrain) ==
    [train |-> SubSeq(p, ntest + 1, ntest + ntrain),
     test  |-> SubSeq(p, 1, ntest)]

TtsCheck ==
    /\ call = "train_test_split" /\ pc = "start"
    /\ LET a == CheckFitInput(coordinates, data, weights)
       IN  IF IsException(a)
           THEN pc' = "raised" /\ err' = a /\ args' = args
           ELSE pc' = "split" /\ err' = err /\ args' = a
    /\ UNCHANGED <<callVars, ret, splitCalls, yielded, scores, submitRet,
                   units, estimators, resolved>>

TtsSplit ==
    /\ call = "train_test_split" /\ pc = "split"
    /\ \E p \in Perms(NData(args)) :
       \E ntest \in 1..NData(args) :
       \E ntrain \in 0..(NData(args) - ntest) :
         /\ splitCalls' = splitCalls + 1
         /\ yielded' = Append(yielded, ShuffleSplit(p, ntest, ntrain))
         /\ LET split == ShuffleSplit(p, ntest, ntrain)
                train == SelectAll(args, split.train)
                test  == SelectAll(args, split.test)
            IN  IF IsException(train) \/ IsException(test)
                THEN /\ pc' = "raised" /\ ret' = ret
                     /\ err' = IF IsException(train) THEN train ELSE test
                ELSE /\ pc' = "done" /\ err' = err
                     /\ ret' = Tuple(<<train, test>>)
    /\ UNCHANGED <<callVars, args, scores, submitRet, units, estimators,
                   resolved>>

\* --------------------------------------------------------- cross_val_score
\* 0..n-1 in ascending order, without i
Others(n, i) == SelectSeq([j \in 1..n |-> j - 1], LAMBDA x : x # i)

\* what cv.split(np.arange(n)) can yield next: one index held out as test
\* (the first, the last, or the out-of-range n of a misbehaving generator),
\* the others as train
CvFolds(n) ==
    { [train |-> Others(n, i), test |-> <<i>>] : i \in {0, n - 1, n} }

\* scores.insert(0, score)
AppendScore_Prepend(list, score) == <<score>> \o list

\* scores.append(score)
AppendScore(list, score) == Append(list, score)

\* np.asarray(scores): a 1-d array with one element per list entry, in order
AsArray(list) == Array1(list)

\* client.submit(fit_score, estimator, test_data, train_data)
SubmitArgs_Swapped(train_data, test_data) ==
    [estimator |-> 1, train |-> test_data, test |-> train_data]

\* the arguments of client.submit(fit_score, estimator, train_data,
\* test_data); estimator is the caller's object, number 1 of estimators
SubmitArgs(train_data, test_data) ==
    [estimator |-> 1, train |-> train_data, test |-> test_data]

\* the unit a backend makes of the submit for a fold: it runs on the
\* estimator passed, or with CopyClient on a copy of it, the copy of handle h
\* being number h + 1 of estimators
BackendUnit(cl, h, fold, a) ==
    [fold   |-> fold, passed |-> a.estimator,
     est    |-> IF cl = "CopyClient" THEN h + 1 ELSE a.estimator,
     train  |-> a.train, test |-> a.test,
     status |-> "pending", result |-> None]

Deferred == client \in {"SharedClient", "CopyClient"}

\* two client.submit calls for one fold
CvsSubmit_Twice(us, cl, fold, a) ==
    Append(Append(us, BackendUnit(cl, Len(us) + 1, fold, a)),
           BackendUnit(cl, Len(us) + 2, fold, a))

\* line 182: one client.submit call for the fold, whose handle is the
\* number of the unit among those submitted
CvsSubmit(us, cl, fold, a) ==
    Append(us, BackendUnit(cl, Len(us) + 1, fold, a))

\* the input taken as it comes: tuples made, nothing validated
CvsStart_Unchecked ==
    /\ call = "cross_val_score" /\ pc = "start"
    /\ pc' = "loop"
    /\ args' = Tuple(<<coordinates, CheckData(data), CheckData(weights)>>)
    /\ client' = IF client = "None" THEN "DummyClient" ELSE client
    /\ UNCHANGED <<call, selArrays, selIndex, coordinates, data, weights, err,
                   ret, splitCalls, yielded, scores, submitRet, units,
                   estimators, resolved>>

\* lines 168-177: normalize the input, default the client
CvsStart ==
    /\ call = "cross_val_score" /\ pc = "start"
    /\ LET a == CheckFitInput(coordinates, data, weights)
       IN  IF IsException(a)
           THEN pc' = "raised" /\ err' = a /\ args' = args /\ client' = client
           ELSE /\ pc' = "loop" /\ err' = err /\ args' = a
                /\ client' = IF client = "None" THEN "DummyClient" ELSE client
    /\ UNCHANGED <<call, selArrays, selIndex, coordinates, data, weights, ret,
                   splitCalls, yielded, scores, submitRet, units, estimators,
                   resolved>>

\* line 178, the generator is exhausted, and line 184
CvsReturn ==
    /\ call = "cross_val_score" /\ pc = "loop"
    /\ splitCalls' = splitCalls + 1
    /\ ret' = AsArray(scores)
    /\ pc' = "done"
    /\ UNCHANGED <<callVars, err, args, yielded, scores, submitRet, units,
                   estimators, resolved>>

\* lines 178-182: the generator yields a fold, both tuples are selected and
\* the unit is submitted
CvsNext ==
    /\ call = "cross_val_score" /\ pc = "loop"
    /\ Len(yielded) < MaxFolds
    /\ \E fold \in CvFolds(NData(args)) :
         /\ splitCalls' = splitCalls + 1
         /\ yielded' = Append(yielded, fold)
         /\ LET train_data == SelectAll(args, fold.train)
                test_data  == SelectAll(args, fold.test)
                h          == Len(units) + 1
            IN  IF IsException(train_data) \/ IsException(test_data)
                THEN /\ pc' = "raised"
                     /\ err' = IF IsException(train_data)
                               THEN train_data ELSE test_data
                     /\ UNCHANGED <<units, estimators, submitRet>>
                ELSE /\ err' = err
                     /\ units' = CvsSubmit(units, client, Len(yielded) + 1,
                                          SubmitArgs(train_data, test_data))
                     /\ estimators' = IF client = "CopyClient"
                                      THEN Append(estimators, estimators[1])
                                      ELSE estimators
                     /\ IF Deferred
                        THEN pc' = "append" /\ submitRet' = Future(h)
                        ELSE pc' = "submit" /\ submitRet' = submitRet
    /\ UNCHANGED <<callVars, ret, args, scores, resolved>>

\* a failure of the fold is caught and the fold skipped
CvsAppend_Swallow ==
    /\ call = "cross_val_score" /\ pc = "append"
    /\ pc' = "loop"
    /\ scores' = IF IsException(submitRet) THEN scores
                 ELSE AppendScore(scores, submitRet)
    /\ submitRet' = None
    /\ UNCHANGED <<callVars, err, ret, args, splitCalls, yielded, units,
                   estimators, resolved>>

\* scores.append(score.result()) for a handle: the loop waits for the unit
\* and takes its outcome
CvsAppend_Resolving ==
    /\ call = "cross_val_score" /\ pc = "append"
    /\ submitRet.t = "Future" =>
           units[submitRet.key].status \in {"finished", "error"}
    /\ LET r == IF submitRet.t = "Future" THEN units[submitRet.key].result
                ELSE submitRet
       IN  IF IsException(r)
           THEN pc' = "raised" /\ err' = r /\ scores' = scores
           ELSE pc' = "loop" /\ err' = err
                /\ scores' = AppendScore(scores, r)
    /\ submitRet' = None
    /\ UNCHANGED <<callVars, ret, args, splitCalls, yielded, units,
                   estimators, resolved>>

\* lines 182-183: submit returned or raised
CvsAppend ==
    /\ call = "cross_val_score" /\ pc = "append"
    /\ IF IsException(submitRet)
       THEN pc' = "raised" /\ err' = submitRet /\ scores' = scores
       ELSE pc' = "loop" /\ err' = err
            /\ scores' = AppendScore(scores, submitRet)
    /\ submitRet' = None
    /\ UNCHANGED <<callVars, ret, args, splitCalls, yielded, units,
                   estimators, resolved>>

\* ---------------------------------------------------------------- fit_score
\* DummyClient runs the unit it was just handed, inside submit; a deferred
\* backend runs any unit at any time
CanRun(h) ==
    /\ call = "cross_val_score"
    /\ h \in 1..Len(units)
    /\ Deferred \/ (pc = "submit" /\ h = Len(units))

\* the unit of handle h ended with outcome r: DummyClient.submit returns or
\* raises it, a deferred backend keeps it for the handle
UnitEnds(h, r) ==
    IF Deferred
    THEN UNCHANGED <<pc, submitRet>>
    ELSE pc' = "append" /\ submitRet' = r

\* estimator.fit(*test_data)
UnitFit_OnTest(h) ==
    /\ CanRun(h)
    /\ units[h].status = "pending"
    /\ \/ /\ estimators' = [estimators EXCEPT
                               ![units[h].est] = Fitted(units[h].test)]
          /\ units' = [units EXCEPT ![h].status = "fitted"]
          /\ UNCHANGED <<pc, submitRet>>
       \/ /\ units' = [units EXCEPT ![h].status = "error",
                                    ![h].result = Exception("FitError")]
          /\ UnitEnds(h, Exception("FitError"))
          /\ UNCHANGED estimators
    /\ UNCHANGED <<callVars, err, ret, args, splitCalls, yielded, scores,
                   resolved>>

\* line 191: estimator.fit(*train_data), which may fail
UnitFit(h) ==
    /\ CanRun(h)
    /\ units[h].status = "pending"
    /\ \/ /\ estimators' = [estimators EXCEPT
                               ![units[h].est] = Fitted(units[h].train)]
          /\ units' = [units EXCEPT ![h].status = "fitted"]
          /\ UNCHANGED <<pc, submitRet>>
       \/ /\ units' = [units EXCEPT ![h].status = "error",
                                    ![h].result = Exception("FitError")]
          /\ UnitEnds(h, Exception("FitError"))
          /\ UNCHANGED estimators
    /\ UNCHANGED <<callVars, err, ret, args, splitCalls, yielded, scores,
                   resolved>>

\* line 192: return estimator.score(*test_data), which may fail
UnitScore(h) ==
    /\ CanRun(h)
    /\ units[h].status = "fitted"
    /\ \E r \in {ScoreOf(estimators[units[h].est], units[h].test),
                 Exception("ScoreError")} :
         /\ units' = [units EXCEPT
                         ![h].status = IF IsException(r) THEN "error"
                                       ELSE "finished",
                         ![h].result = r]
         /\ UnitEnds(h, r)
    /\ UNCHANGED <<callVars, err, ret, args, splitCalls, yielded, scores,
                   estimators, resolved>>

\* the caller resolves entry i of the returned array, future.result(): it
\* waits for the unit, then returns its score or raises its failure
Resolve(i) ==
    /\ call = "cross_val_score" /\ pc = "done" /\ Deferred
    /\ i \in 1..Size(ret)
    /\ ~\E r \in resolved : r.slot = i
    /\ LET u == units[Ravel(ret)[i].key]
       IN  /\ u.status \in {"finished", "error"}
           /\ resolved' = resolved \cup {[slot |-> i, outcome |-> u.result]}
    /\ UNCHANGED <<callVars, pc, err, ret, args, splitCalls, yielded, scores,
                   submitRet, units, estimators>>

Next ==
    \/ DoSelect
    \/ TtsCheck
    \/ TtsSplit
    \/ CvsStart
    \/ CvsReturn
    \/ CvsNext
    \/ CvsAppend
    \/ \E h \in 1..MaxFolds : UnitFit(h)
    \/ \E h \in 1..MaxFolds : UnitScore(h)
    \/ \E i \in 1..MaxFolds : Resolve(i)

Spec == Init /\ [][Next]_vars

\* ================================================================== claims
\* the entries of the array cross_val_score returned
Returned == Ravel(ret)

\* what client.submit returned for the unit of handle h
SubmitReturned(h) == IF Deferred THEN Future(h) ELSE units[h].result

\* C1: when cross_val_score returns, the result has one entry per fold the
\* generator yielded, and entry i is what client.submit returned for the
\* i-th fold, for every backend and every order in which deferred units end.
C1_ResultInFoldOrder ==
    (call = "cross_val_score" /\ pc = "done") =>
        /\ ret.t = "ndarray"
        /\ Size(ret) = Len(yielded)
        /\ \A i \in 1..Len(yielded) :
             \E h \in 1..Len(units) :
                 units[h].fold = i /\ Returned[i] = SubmitReturned(h)

\* two folds, returned while the unit of the second fold has ended and the
\* unit of the first has not started
C1_Witness ==
    /\ call = "cross_val_score" /\ pc = "done" /\ client = "SharedClient"
    /\ Len(yielded) = 2 /\ Len(units) = 2
    /\ units[1].status = "pending" /\ units[2].status = "finished"

\* C2: the h-th submit is for the h-th fold yielded, every fold yielded has
\* its one submit (but the fold whose selection raised), and with the
\* immediate backend every unit but the one being submitted has ended, the
\* earlier ones with their score, before the next is submitted.
C2_OneSubmitPerFoldInOrder ==
    call = "cross_val_score" =>
        /\ \A h \in 1..Len(units) : units[h].fold = h
        /\ Len(units) =
             IF pc = "raised" /\ err = Exception("IndexError")
             THEN Len(yielded) - 1 ELSE Len(yielded)
        /\ ~Deferred =>
             \A h \in 1..Len(units) :
                 /\ h < Len(units) => units[h].status = "finished"
                 /\ (h = Len(units) /\ pc # "submit") =>
                        units[h].status \in {"finished", "error"}
        /\ pc = "submit" => ~Deferred /\ units[Len(units)].status
                                          \in {"pending", "fitted"}

\* the immediate backend is inside the submit of the second fold, the first
\* fold's unit has its score
C2_Witness ==
    /\ call = "cross_val_score" /\ client = "DummyClient" /\ pc = "submit"
    /\ Len(units) = 2 /\ units[1].status = "finished"
    /\ units[2].status = "pending"

\* the tuple has no absent element
AllPresent(arrays) == ~IsNone(arrays) /\ ~AnyNone(arrays)

\* C3: select returns its arrays argument itself, whatever the index, when
\* the argument is None or a tuple with a None in it; so with weights=None
\* train_test_split returns, and cross_val_score submits, the normalized
\* absent weights in every train and every test tuple.
C3_PassThrough ==
    /\ (call = "select" /\ ~AllPresent(selArrays)) =>
           /\ pc \in {"start", "done"}
           /\ pc = "done" => ret = selArrays
    /\ (call = "train_test_split" /\ IsNone(weights) /\ pc = "done") =>
           /\ AnyNone(args.v[3])
           /\ \A k \in 1..2 : ret.v[k].v[3] = args.v[3]
    /\ (call = "cross_val_score" /\ IsNone(weights)) =>
           \A h \in 1..Len(units) :
               /\ AnyNone(args.v[3])
               /\ units[h].train.v[3] = args.v[3]
               /\ units[h].test.v[3] = args.v[3]

\* select has returned a tuple of a None and an array, given an index that
\* is out of the array's range
C3_Witness ==
    /\ call = "select" /\ pc = "done"
    /\ selArrays.t = "tuple" /\ Len(selArrays.v) = 2
    /\ IsNone(selArrays.v[1]) /\ ~IsNone(selArrays.v[2])
    /\ Len(selIndex) > 0
    /\ \A j \in 1..Len(selIndex) : selIndex[j] >= Size(selArrays.v[2])

\* the element at flat (row-major) position p of an array: row p div c,
\* column p mod c, for rows of c elements
FlatItem(a, p) ==
    LET c == Len(a.rows[1])
    IN  a.rows[(p \div c) + 1][(p % c) + 1]

NumItems(a) == Len(a.rows) * Len(a.rows[1])

\* every position of index is in [0, n) for each array of the tuple
InRange(arrays, index) ==
    \A i \in 1..Len(arrays.v) : \A j \in 1..Len(index) :
        0 <= index[j] /\ index[j] < NumItems(arrays.v[i])

\* the indexing half of C4, as a predicate of the state
SelectIndexed ==
    (call = "select" /\ AllPresent(selArrays) /\ InRange(selArrays, selIndex))
    =>  /\ pc \in {"start", "done"}
        /\ pc = "done" =>
             /\ ret.t = "tuple" /\ Len(ret.v) = Len(selArrays.v)
             /\ \A i \in 1..Len(ret.v) :
                  /\ ret.v[i].t = "ndarray" /\ ret.v[i].nd = 1
                  /\ Len(ret.v[i].rows[1]) = Len(selIndex)
                  /\ \A j \in 1..Len(selIndex) :
                       ret.v[i].rows[1][j] =
                           FlatItem(selArrays.v[i], selIndex[j])

\* C4: for a tuple without None and an index of positions in [0, n), select
\* returns (it does not raise) a tuple of the same arity whose i-th element
\* is the 1-d array of the flattened arrays[i] at the positions of index, in
\* the order of index; and the call leaves its arguments as they were.
C4_SelectIndexes ==
    /\ []SelectIndexed
    /\ [][call = "select" => selArrays' = selArrays /\ selIndex' = selIndex]_vars

\* select has returned for a tuple with a 2-d array, given the same position
\* of its second row twice
C4_Witness ==
    /\ call = "select" /\ pc = "done" /\ AllPresent(selArrays)
    /\ \E i \in 1..Len(selArrays.v) : selArrays.v[i].nd = 2
    /\ InRange(selArrays, selIndex)
    /\ Len(selIndex) = 2 /\ selIndex[1] = selIndex[2] /\ selIndex[1] >= 1

\* a unit of the immediate backend has failed
SomeUnitFailed == \E h \in 1..Len(units) : units[h].status = "error"

\* C5: with the immediate backend, once the fit or the score of a fold
\* fails, that fold is the last one submitted and the last one the generator
\* was asked for, it was submitted once, the failure is what submit raises
\* and what cross_val_score ends with, and nothing is returned.
C5_FailingFoldAborts ==
    (call = "cross_val_score" /\ client = "DummyClient" /\ SomeUnitFailed) =>
        LET h == Len(units)
        IN  /\ units[h].status = "error"
            /\ units[h].result.exc \in {"FitError", "ScoreError"}
            /\ \A g \in 1..Len(units) :
                 /\ units[g].fold = g
                 /\ g < h => units[g].status = "finished"
            /\ Len(yielded) = h /\ splitCalls = h
            /\ pc \in {"append", "raised"}
            /\ pc = "append" => submitRet = units[h].result
            /\ pc = "raised" => err = units[h].result
            /\ ret = None

\* the first fold was scored, the score of the second failed, and
\* cross_val_score has raised
C5_Witness ==
    /\ call = "cross_val_score" /\ client = "DummyClient" /\ pc = "raised"
    /\ Len(units) = 2 /\ Len(scores) = 1
    /\ units[2].result = Exception("ScoreError")
    /\ err = Exception("ScoreError")

\* C6: with a deferred backend cross_val_score ends with a failure only of
\* its own (validation, indexing), never of a unit; what submit gives it is
\* the handle, never the unit's outcome; when it returns, every fold yielded
\* has its unit and its handle, in order, whatever the units did; and an
\* outcome reaches the caller only by resolving that fold's handle, after
\* the return.
C6_DeferredFailuresInHandles ==
    (call = "cross_val_score" /\ Deferred) =>
        /\ pc = "raised" => err.exc \in {"ValueError", "IndexError"}
        /\ pc = "append" => submitRet = Future(Len(units))
        /\ pc # "append" => submitRet = None
        /\ \A i \in 1..Len(scores) : scores[i] = Future(i)
        /\ pc = "done" =>
             /\ Len(units) = Len(yielded) /\ Size(ret) = Len(yielded)
             /\ \A i \in 1..Len(yielded) :
                  Returned[i] = Future(i) /\ units[i].fold = i
        /\ resolved # {} => pc = "done"
        /\ \A r \in resolved :
             /\ units[r.slot].status \in {"finished", "error"}
             /\ r.outcome = units[r.slot].result

\* cross_val_score returned two handles; the unit of the first fold failed,
\* the unit of the second has its score, and the caller has seen the failure
\* by resolving the first handle
C6_Witness ==
    /\ call = "cross_val_score" /\ Deferred /\ pc = "done"
    /\ Len(units) = 2
    /\ units[1].status = "error" /\ units[2].status = "finished"
    /\ resolved = {[slot |-> 1, outcome |-> units[1].result]}

\* the components of data or weights as the caller gave them
Comps(x) == IF x.t = "tuple" THEN x.v ELSE <<x>>

\* the caller's input has a component-count mismatch between data and
\* weights, or a length mismatch across coordinates, data and weights
InvalidInput ==
    LET n == NumItems(coordinates.v[1])
    IN  \/ \E i \in 1..Len(coordinates.v) : NumItems(coordinates.v[i]) # n
        \/ \E i \in 1..Len(Comps(data)) : NumItems(Comps(data)[i]) # n
        \/ /\ ~IsNone(weights)
           /\ \/ Len(Comps(weights)) # Len(Comps(data))
              \/ \E i \in 1..Len(Comps(weights)) :
                     NumItems(Comps(weights)[i]) # n

\* C7: on an input that fails normalization, train_test_split and
\* cross_val_score end with the validation error and nothing else happens:
\* the generator is never asked, nothing is submitted, no estimator is
\* fitted, nothing is returned, whatever the backend.
C7_ValidationFirst ==
    (call \in {"train_test_split", "cross_val_score"} /\ InvalidInput) =>
        /\ pc \in {"start", "raised"}
        /\ pc = "raised" => err = Exception("ValueError")
        /\ splitCalls = 0 /\ yielded = <<>>
        /\ units = <<>> /\ submitRet = None /\ scores = <<>>
        /\ estimators = <<Unfitted>>
        /\ ret = None /\ resolved = {}

\* cross_val_score with a deferred backend has raised on weights of another
\* component count than data
C7_Witness ==
    /\ call = "cross_val_score" /\ client = "CopyClient" /\ pc = "raised"
    /\ ~IsNone(weights) /\ Len(Comps(weights)) # Len(Comps(data))
    /\ err = Exception("ValueError")

\* the score of unit h was computed on the fit of its own train data
ScoredOnOwnFit(h) ==
    units[h].status = "finished" =>
        units[h].result.model = Fitted(units[h].train)

\* C8: every unit is passed the caller's one estimator object; a score
\* computed on another fit than the unit's own happens only with the
\* deferred backend that runs the units on that shared object, never with
\* the immediate backend or with the backend that copies the estimator.
C8_SharedEstimator ==
    call = "cross_val_score" =>
        \A h \in 1..Len(units) :
            /\ units[h].passed = 1
            /\ client # "SharedClient" => ScoredOnOwnFit(h)

\* with the shared estimator, the first fold was scored on the fit of the
\* second fold's train data
C8_Witness ==
    /\ call = "cross_val_score" /\ client = "SharedClient"
    /\ Len(units) = 2
    /\ units[1].status = "finished"
    /\ units[1].result.model = Fitted(units[2].train)
    /\ units[1].train # units[2].train

\* select applied to each of coordinates, data and weights
Selected(index) ==
    Tuple(<<Select(args.v[1], index), Select(args.v[2], index),
            Select(args.v[3], index)>>)

\* fit_score by hand on the i-th fold yielded: the score of an estimator
\* fitted on the fold's train tuple, on the fold's test tuple
ManualFitScore(i) ==
    ScoreOf(Fitted(Selected(yielded[i].train)), Selected(yielded[i].test))

\* C9: what cross_val_score returns with the immediate backend is, entry by
\* entry, the score fit_score gives by hand on the folds yielded, in order.
C9_ImmediateEqualsManual ==
    (call = "cross_val_score" /\ client = "DummyClient" /\ pc = "done") =>
        /\ Size(ret) = Len(yielded)
        /\ \A i \in 1..Len(yielded) : Returned[i] = ManualFitScore(i)

\* returned with the immediate backend after two different folds
C9_Witness ==
    /\ call = "cross_val_score" /\ client = "DummyClient" /\ pc = "done"
    /\ Len(yielded) = 2 /\ yielded[1] # yielded[2]
    /\ Size(ret) = 2

\* the split leaves no index of 0..n-1 out and takes none twice
Complete(split, n) ==
    /\ Len(split.train) + Len(split.test) = n
    /\ \A x \in 0..(n - 1) :
         \/ \E j \in 1..Len(split.train) : split.train[j] = x
         \/ \E j \in 1..Len(split.test) : split.test[j] = x

\* C10: train_test_split asks for one split and applies its train indices
\* and its test indices to each of coordinates, data and weights: every
\* component that is not None has the length of the train indices in train
\* and of the test indices in test, and the two sum to n when the split is
\* complete.
C10_SplitLengths ==
    (call = "train_test_split" /\ pc = "done") =>
        /\ splitCalls = 1 /\ Len(yielded) = 1
        /\ \A k \in 1..3 :
             /\ ret.v[1].v[k] = Select(args.v[k], yielded[1].train)
             /\ ret.v[2].v[k] = Select(args.v[k], yielded[1].test)
             /\ Len(ret.v[1].v[k].v) = Len(args.v[k].v)
             /\ Len(ret.v[2].v[k].v) = Len(args.v[k].v)
             /\ \A j \in 1..Len(args.v[k].v) :
                  ~IsNone(args.v[k].v[j]) =>
                    /\ NumItems(ret.v[1].v[k].v[j]) = Len(yielded[1].train)
                    /\ NumItems(ret.v[2].v[k].v[j]) = Len(yielded[1].test)
                    /\ Complete(yielded[1], NData(args)) =>
                         NumItems(ret.v[1].v[k].v[j])
                           + NumItems(ret.v[2].v[k].v[j]) = NData(args)

\* a complete split of four points with two-component data and weights
C10_Witness ==
    /\ call = "train_test_split" /\ pc = "done"
    /\ NData(args) = 4 /\ Complete(yielded[1], 4)
    /\ Len(yielded[1].test) = 1
    /\ Len(args.v[2].v) = 2 /\ AllPresent(args.v[3])

====
